---------------------------- MODULE Spec2Model ----------------------------
(***************************************************************************)
(* Dutch Bay 150MW wind farm financial model.                              *)
(*                                                                         *)
(* Four parts of the repository are modelled, each with its own            *)
(* specification over the shared variables:                                *)
(*   SpecDebt : build_full_model (dutch_bay_financial_model.py): the year  *)
(*              loop of compute_debt_schedule, the dual-currency           *)
(*              amortization schedule, on top of the cash-flow engine      *)
(*              (compute_generation .. ), and then the ledger.             *)
(*   SpecIrr  : calculate_irr_robust / calculate_xirr_robust               *)
(*              (dutchbay_finmodel_enhanced.py).                           *)
(*   SpecMC   : run_monte_carlo (montecarlo.py), one step per draw.        *)
(*   SpecOpt  : optimize_capital_structure (optimization_enhanced.py).     *)
(*                                                                         *)
(* Arithmetic.  The program computes in binary floating point; the model   *)
(* computes in fixed point on integers, rounding every quotient down:      *)
(*   money (hard currency)   thousands of USD        (USD M  x 1000)       *)
(*   money (local currency)  LKR millions                                  *)
(*   generation              units of 100 MWh                              *)
(*   FX rate                 LKR per USD x 100                             *)
(*   tariff (native)         LKR per kWh x 100                             *)
(*   tariff (hard currency)  US cents per MWh                              *)
(*   opex rate               USD per MWh x 1000                            *)
(*   growth / interest rates basis points (x 10000), tax and splits in %,  *)
(*   levy in per mille.                                                    *)
(***************************************************************************)
EXTENDS Integers, Sequences, FiniteSets, TLC

VARIABLES
    \* ---- dutch_bay_financial_model.py ----
    P,                    \* the module-level input parameters (lines 13-38)
    year,                 \* loop variable of compute_debt_schedule
    usd_bal, lkr_bal,     \* outstanding balances
    usd_principal_hist, usd_interest_hist,
    lkr_principal_hist, lkr_interest_hist, lkr_ds_hist,
    ledger,               \* the rows of the DataFrame of build_full_model
    \* ---- dutchbay_finmodel_enhanced.py ----
    irr_call,             \* the call of calculate_irr_robust and its outcome
    xirr_call,            \* the call of calculate_xirr_robust and its outcome
    \* ---- montecarlo.py ----
    mc_pc,                \* where run_monte_carlo is: start, loop, done, raised
    mc_args,              \* its arguments: iterations, seed
    scenarios,            \* the sampled parameters
    mc_i,                 \* the loop variable i
    out_data,             \* the rows appended so far
    mc_calls,             \* the arguments of the build_financial_model calls
    scenarios_again,      \* the samples of a later call with the same arguments
    \* ---- optimization_enhanced.py ----
    opt_pc,               \* where optimize_capital_structure is: search, ended
    opt_args,             \* its arguments: objective, constraints
    pipeline,             \* build_financial_model as a function of the point
    opt_trials,           \* the trial evaluations the solver has made
    opt_res,              \* how minimize ended
    opt_result            \* what optimize_capital_structure did

debtVars == <<P, year, usd_bal, lkr_bal, usd_principal_hist, usd_interest_hist,
              lkr_principal_hist, lkr_interest_hist, lkr_ds_hist, ledger>>

irrVars == <<irr_call, xirr_call>>

mcVars == <<mc_pc, mc_args, scenarios, mc_i, out_data, mc_calls, scenarios_again>>

optVars == <<opt_pc, opt_args, pipeline, opt_trials, opt_res, opt_result>>

vars == <<debtVars, irrVars, mcVars, optVars>>

-----------------------------------------------------------------------------
(* Helpers                                                                 *)

Max(a, b) == IF a >= b THEN a ELSE b

Min(a, b) == IF a <= b THEN a ELSE b

\* Python's None, and NaN, for an optional number: the empty set, a number v
\* being {v}.
None == {}

\* Fixed-point scale of growth factors and interest rates (basis points).
S == 100 * 100

\* b^n for a factor b scaled by S; the result is scaled by S.
RECURSIVE PowS(_, _)
PowS(b, n) == IF n = 0 THEN S ELSE (PowS(b, n - 1) * b) \div S

-----------------------------------------------------------------------------
(* Core input parameters, dutch_bay_financial_model.py lines 13-38, in the *)
(* model's units.                                                          *)

PROJECT_YEARS == 20
NAMEPLATE_MW == 150
CF_P50 == 40                 \* 0.40, in %
YEARLY_DEGRADATION == 60     \* 0.006, in basis points
HOURS_PER_YEAR == 8760
TARIFF_LKR_KWH == 2036       \* 20.36 LKR/kWh x 100
FX_INITIAL == 300
FX_DEPR == 300               \* 0.03, in basis points
OPEX_USD_MWH == 6830         \* 6.83 USD/MWh x 1000
OPEX_ESC_USD == 200          \* 0.02, in basis points
OPEX_ESC_LKR == 500          \* 0.05, in basis points
OPEX_SPLIT_USD == 30         \* 0.3, in %
OPEX_SPLIT_LKR == 70         \* 0.7, in %
CAPEX_TOTAL == 146380        \* 146.38 USD M, in thousands of USD
ECON_LIFE == 20
SSCL_RATE == 25              \* 0.025, in per mille
TAX_RATE == 30               \* 0.30, in %
USD_DEBT_INIT == 56360       \* 56.36 USD M, in thousands of USD
LKR_DEBT_INIT == 13833       \* LKR M
USD_DEBT_RATE == 700         \* 0.07, in basis points
LKR_DEBT_RATE == 700         \* 0.07, in basis points
USD_DEBT_TENOR == 15
LKR_DEBT_TENOR == 15
GRACE_PERIOD == 1
PRINCIPAL_PCT_1_4 == 80      \* 0.80, in %
PRINCIPAL_PCT_5_ON == 20     \* 0.20, in %

\* The parameters are module globals that a run may override ("Can be
\* overridden via CSV", line 10).  The model runs the schedule for the
\* nominal value of each and for the overrides below: distress tariffs that
\* make the cash flow available for debt service negative, the lowest from
\* the first year on and with it the operating cash flow, a small
\* hard-currency loan that is repaid before the horizon ends, a small
\* local-currency loan that the tenor does not divide, no and a
\* two-year grace period, a short local-currency tenor and a horizon beyond
\* the economic life.
ParameterSets ==
    [ TARIFF_LKR_KWH : {TARIFF_LKR_KWH, 100, 300, 900},
      USD_DEBT_INIT  : {USD_DEBT_INIT, 5000},
      LKR_DEBT_INIT  : {LKR_DEBT_INIT, 1000},
      LKR_DEBT_TENOR : {LKR_DEBT_TENOR, 3},
      GRACE_PERIOD   : {0, GRACE_PERIOD, 2},
      PROJECT_YEARS  : {PROJECT_YEARS, 22},
      ECON_LIFE      : {ECON_LIFE} ]

-----------------------------------------------------------------------------
(* Cash-flow engine, dutch_bay_financial_model.py lines 44-135             *)

\* Annual gross generation, in units of 100 MWh.
compute_generation(y) ==
    (((NAMEPLATE_MW * HOURS_PER_YEAR * CF_P50) \div 10000)
        * PowS(S - YEARLY_DEGRADATION, y - 1)) \div S

\* FX rate of the year, LKR per USD x 100.
compute_fx(y) == (FX_INITIAL * 100 * PowS(S + FX_DEPR, y - 1)) \div S

\* Hard-currency tariff, US cents per MWh.
compute_tariff_usd(y) == (P.TARIFF_LKR_KWH * 100000) \div compute_fx(y)

\* Annual revenue, thousands of USD.
compute_revenue(y) == (compute_generation(y) * compute_tariff_usd(y)) \div 1000

\* Social Service Contribution Levy on turnover, thousands of USD.
compute_sscl(y) == (compute_revenue(y) * SSCL_RATE) \div 1000

\* Annual OPEX with dual-currency escalation, thousands of USD.
compute_opex(y) ==
    LET gen == compute_generation(y)
        fx == compute_fx(y)
        usd_portion ==
            (((OPEX_USD_MWH * OPEX_SPLIT_USD) \div 100)
                * PowS(S + OPEX_ESC_USD, y - 1)) \div S
        lkr_portion_base ==
            (((OPEX_USD_MWH * OPEX_SPLIT_LKR) \div 100)
                * PowS(S + OPEX_ESC_LKR, y - 1)) \div S
        lkr_portion_usd == (lkr_portion_base * FX_INITIAL * 100) \div fx
    IN  (gen * (usd_portion + lkr_portion_usd)) \div 10000

\* Annual straight-line depreciation, thousands of USD.
compute_depreciation == CAPEX_TOTAL \div P.ECON_LIFE

-----------------------------------------------------------------------------
(* compute_debt_schedule, dutch_bay_financial_model.py lines 138-193       *)

\* Interest of a year on the balance at the start of the year (lines 156, 158).
Interest(bal, rate) == (bal * rate) \div S

\* Local-currency interest converted at the year's FX rate (lines 159-160),
\* thousands of USD.
LkrIntUsd(lkr_int, y) == (lkr_int * 100000) \div compute_fx(y)

\* Tax without the floor.
TaxUnfloored(ebit) == (ebit * TAX_RATE) \div 100

\* Tax on EBIT, floored at zero (line 165).
Tax(ebit) == Max(0, (ebit * TAX_RATE) \div 100)

\* Operating cash flow of the year after all costs (lines 162-166).
SchedEbit(y) ==
    LET ebitda == compute_revenue(y) - compute_sscl(y) - compute_opex(y)
        da == compute_depreciation
    IN  ebitda - da

SchedTax(y) == Tax(SchedEbit(y))

SchedOpCf(y) == SchedEbit(y) - SchedTax(y) + compute_depreciation

\* OpCfAvail without the deduction of the year's interest.
OpCfAvailGross(y, usd_int, lkr_int) == SchedOpCf(y)

\* Cash flow available for debt service (line 167).
OpCfAvail(y, usd_int, lkr_int) == SchedOpCf(y) - usd_int - LkrIntUsd(lkr_int, y)

\* Hard-currency principal of the year (lines 169-176).
UsdPrincipal(y, bal, op_cf_avail) ==
    IF y = 1 /\ P.GRACE_PERIOD = 1 THEN 0
    ELSE IF y >= 2 /\ y <= 4
         THEN Min(bal, (PRINCIPAL_PCT_1_4 * op_cf_avail) \div 100)
    ELSE IF y > 4
         THEN Min(bal, (PRINCIPAL_PCT_5_ON * op_cf_avail) \div 100)
    ELSE 0

\* LkrPrincipal with the remaining tenor counted one year too long.
LkrPrincipalLate(y, bal) ==
    IF y <= P.LKR_DEBT_TENOR THEN bal \div (P.LKR_DEBT_TENOR - y + 2) ELSE 0

\* Local-currency principal of the year (lines 178-181).
LkrPrincipal(y, bal) ==
    IF y <= P.LKR_DEBT_TENOR THEN bal \div (P.LKR_DEBT_TENOR - y + 1) ELSE 0

\* BalanceAfter with the operands of the difference exchanged and the floor
\* left out.
BalanceAfterUnfloored(bal, prin) == prin - bal

\* Balance after the year's principal is applied (lines 177, 182).
BalanceAfter(bal, prin) == Max(0, bal - prin)

\* State after the assignments of lines 145-152.
DebtStart ==
    /\ P \in ParameterSets
    /\ year = 1
    /\ usd_bal = P.USD_DEBT_INIT
    /\ lkr_bal = P.LKR_DEBT_INIT
    /\ usd_principal_hist = <<>>
    /\ usd_interest_hist = <<>>
    /\ lkr_principal_hist = <<>>
    /\ lkr_interest_hist = <<>>
    /\ lkr_ds_hist = <<>>
    /\ ledger = <<>>

\* ScheduleYear with the local-currency interest computed after the year's
\* principal is applied, on the balance at the end of the year.
ScheduleYearInterestAtYearEnd ==
    /\ year <= P.PROJECT_YEARS
    /\ LET usd_int == Interest(usd_bal, USD_DEBT_RATE)
           lkr_prin == LkrPrincipal(year, lkr_bal)
           lkr_int == Interest(BalanceAfter(lkr_bal, lkr_prin), LKR_DEBT_RATE)
           op_cf_avail == OpCfAvail(year, usd_int, lkr_int)
           usd_prin == UsdPrincipal(year, usd_bal, op_cf_avail)
       IN  /\ usd_bal' = BalanceAfter(usd_bal, usd_prin)
           /\ lkr_bal' = BalanceAfter(lkr_bal, lkr_prin)
           /\ usd_principal_hist' = Append(usd_principal_hist, usd_prin)
           /\ usd_interest_hist' = Append(usd_interest_hist, usd_int)
           /\ lkr_principal_hist' = Append(lkr_principal_hist, lkr_prin)
           /\ lkr_interest_hist' = Append(lkr_interest_hist, lkr_int)
           /\ lkr_ds_hist' = Append(lkr_ds_hist, lkr_int + lkr_prin)
    /\ year' = year + 1
    /\ UNCHANGED <<P, ledger, irrVars, mcVars, optVars>>

\* One pass of the loop body, lines 154-188.
ScheduleYear ==
    /\ year <= P.PROJECT_YEARS
    /\ LET usd_int == Interest(usd_bal, USD_DEBT_RATE)
           lkr_int == Interest(lkr_bal, LKR_DEBT_RATE)
           op_cf_avail == OpCfAvail(year, usd_int, lkr_int)
           usd_prin == UsdPrincipal(year, usd_bal, op_cf_avail)
           lkr_prin == LkrPrincipal(year, lkr_bal)
       IN  /\ usd_bal' = BalanceAfter(usd_bal, usd_prin)
           /\ lkr_bal' = BalanceAfter(lkr_bal, lkr_prin)
           /\ usd_principal_hist' = Append(usd_principal_hist, usd_prin)
           /\ usd_interest_hist' = Append(usd_interest_hist, usd_int)
           /\ lkr_principal_hist' = Append(lkr_principal_hist, lkr_prin)
           /\ lkr_interest_hist' = Append(lkr_interest_hist, lkr_int)
           /\ lkr_ds_hist' = Append(lkr_ds_hist, lkr_int + lkr_prin)
    /\ year' = year + 1
    /\ UNCHANGED <<P, ledger, irrVars, mcVars, optVars>>

-----------------------------------------------------------------------------
(* build_full_model, dutch_bay_financial_model.py lines 196-253            *)

\* LedgerTax without the floor.
LedgerTaxUnfloored(ebit) == (ebit * TAX_RATE) \div 100

\* Tax of the ledger (line 216).
LedgerTax(ebit) == Max(0, (ebit * TAX_RATE) \div 100)

\* A local-currency amount of the schedule converted at the year's FX rate
\* (lines 223-224), thousands of USD.
LedgerLkrUsd(amount, y) == (amount * 100000) \div compute_fx(y)

\* Total debt service of a year (line 226).
TotalDs(usd_int, usd_prin, lkr_int_usd, lkr_prin_usd) ==
    usd_int + usd_prin + lkr_int_usd + lkr_prin_usd

\* DSCR of a year (line 227), the ratio times 100 rounded down; NaN is None.
\* The threshold of 1e-6 USD M lies below one unit of the model's money.
Dscr(op_cf, total_ds) ==
    IF total_ds > 0 THEN {(op_cf * 100) \div total_ds} ELSE None

\* EqCf with debt service added instead of deducted.
EqCfAdded(op_cf, total_ds) == op_cf + total_ds

\* Equity cash flow of a year (line 228).
EqCf(op_cf, total_ds) == op_cf - total_ds

\* Depreciation of the ledger in year y (line 213): the annual amount times
\* a vector of ones over the horizon.
LedgerDa(y) == compute_depreciation

\* The ledger's row of year y (lines 205-251), from the arrays that
\* compute_debt_schedule returned.
LedgerRow(y) ==
    LET revenue == compute_revenue(y)
        sscl == compute_sscl(y)
        opex == compute_opex(y)
        da == LedgerDa(y)
        ebitda == revenue - sscl - opex
        ebit == ebitda - da
        tax == LedgerTax(ebit)
        op_cf == ebit - tax + da
        usd_prin == usd_principal_hist[y]
        usd_int == usd_interest_hist[y]
        lkr_int_usd == LedgerLkrUsd(lkr_interest_hist[y], y)
        lkr_prin_usd == LedgerLkrUsd(lkr_principal_hist[y], y)
        total_ds == TotalDs(usd_int, usd_prin, lkr_int_usd, lkr_prin_usd)
    IN  [ Year |-> y,
          Generation_MWh |-> compute_generation(y),
          FX |-> compute_fx(y),
          Tariff_USD_MWh |-> compute_tariff_usd(y),
          Revenue_USD_M |-> revenue,
          SSCL_USD_M |-> sscl,
          OPEX_USD_M |-> opex,
          EBITDA |-> ebitda,
          DA |-> da,
          EBIT |-> ebit,
          Tax |-> tax,
          Op_CF |-> op_cf,
          USD_Int |-> usd_int,
          USD_Prin |-> usd_prin,
          LKR_Int |-> lkr_int_usd,
          LKR_Prin |-> lkr_prin_usd,
          Total_DS |-> total_ds,
          DSCR |-> Dscr(op_cf, total_ds),
          Eq_CF |-> EqCf(op_cf, total_ds) ]

\* compute_debt_schedule has returned (line 220): the DataFrame is built
\* and returned (lines 223-253).
build_full_model ==
    /\ year = P.PROJECT_YEARS + 1
    /\ ledger = <<>>
    /\ ledger' = [y \in 1..P.PROJECT_YEARS |-> LedgerRow(y)]
    /\ UNCHANGED <<P, year, usd_bal, lkr_bal, usd_principal_hist,
                   usd_interest_hist, lkr_principal_hist, lkr_interest_hist,
                   lkr_ds_hist, irrVars, mcVars, optVars>>

-----------------------------------------------------------------------------
(* Root-finding layer, dutchbay_finmodel_enhanced.py                       *)

\* Longest cash-flow sequence the model enumerates.
MaxLen == 3

\* The amounts a cash flow takes in the model.
CashFlowValues == {-1, 0, 1, 10}

CashFlowSeqs == UNION {[1..n -> CashFlowValues] : n \in 0..MaxLen}

\* Rates are in percent.  The bracket of the solvers, -0.99 and 5.00
\* (lines 38, 51 and 65).
RATE_LO == -99
RATE_HI == 500

\* The rates the model lets the solvers return: one inside the bracket
\* (RateInside), its two ends, and one beyond each end.
RateInside == 10

SolverRates == {-150, RATE_LO, RateInside, RATE_HI, 600}

NoCall == [fn |-> "none"]

RECURSIVE IPow(_, _)
IPow(b, n) == IF n = 0 THEN 1 ELSE b * IPow(b, n - 1)

Sign(x) == IF x > 0 THEN 1 ELSE IF x < 0 THEN -1 ELSE 0

\* calculate_npv (lines 24-25) at the rate r with 1 + r = num / den, times
\* the positive factor num^(n-1): sum of cf_i * den^i * num^(n-1-i).  Its
\* sign is the sign of the NPV.
RECURSIVE NpvTerms(_, _, _, _)
NpvTerms(num, den, cf, i) ==
    IF i > Len(cf) THEN 0
    ELSE cf[i] * IPow(den, i - 1) * IPow(num, Len(cf) - i)
         + NpvTerms(num, den, cf, i + 1)

calculate_npv_sign(num, den, cash_flows) == Sign(NpvTerms(num, den, cash_flows, 1))

\* An outcome of a solver call: a root with the outcome of the residual check
\* made on it, or an exception.
Root(rate, resid_ok) == [kind |-> "root", rate |-> rate, resid_ok |-> resid_ok]

Raise(exc) == [kind |-> "raise", exc |-> exc]

\* The outcomes of a brentq call on the bracket [-0.99, 5.00], given the signs
\* of the function at its two ends: a zero at an end is returned at once, equal
\* signs are a ValueError, and a bracketed search returns a root (whose
\* residual may or may not pass the caller's check) or, when the iteration cap
\* is reached first, raises RuntimeError.
BrentqOutcomes(fa, fb) ==
    IF fa = 0 THEN {Root(RATE_LO, TRUE)}
    ELSE IF fb = 0 THEN {Root(RATE_HI, TRUE)}
    ELSE IF fa = fb THEN {Raise("ValueError")}
    ELSE {Root(RateInside, ok) : ok \in BOOLEAN} \cup {Raise("RuntimeError")}

\* brentq on calculate_npv (line 38).
IrrBrentqOutcomes(cash_flows) ==
    BrentqOutcomes(calculate_npv_sign(1, 100, cash_flows),
                   calculate_npv_sign(6, 1, cash_flows))

\* The outcomes of the newton call (line 49): an iterate anywhere, or an
\* exception (no convergence within the cap, zero derivative).
NewtonOutcomes ==
    {Root(r, ok) : r \in SolverRates, ok \in BOOLEAN}
        \cup {Raise("RuntimeError")}

\* Number of sign changes between consecutive cash flows (line 34).
SignChanges(cash_flows) ==
    Cardinality({i \in 1..(Len(cash_flows) - 1) :
                    cash_flows[i] * cash_flows[i + 1] < 0})

\* Warning with the warning attached from the first sign change on.
WarningFromOne(cash_flows) ==
    IF SignChanges(cash_flows) >= 1 THEN "multiple IRRs may exist" ELSE "None"

\* The warning of line 35.
Warning(cash_flows) ==
    IF SignChanges(cash_flows) > 1 THEN "multiple IRRs may exist" ELSE "None"

\* What a call does: it returns a dict or lets an exception out.  solvers
\* lists the solver calls it made, in order.
Solved(solver, outcome) == [solver |-> solver, outcome |-> outcome]

Returned(value, solvers) == [kind |-> "return", value |-> value, solvers |-> solvers]

Raised(exc, solvers) == [kind |-> "raise", exc |-> exc, solvers |-> solvers]

\* IrrPrecheck with strict comparisons in the two sign checks.
IrrPrecheckStrict(cash_flows) ==
    IF Len(cash_flows) < 2
    THEN {[irr |-> None, status |-> "ERROR",
           message |-> "Need at least 2 cash flows", method |-> "None"]}
    ELSE IF \A i \in 1..Len(cash_flows) : cash_flows[i] > 0
    THEN {[irr |-> None, status |-> "ERROR",
           message |-> "No negative cash flows - IRR undefined", method |-> "None"]}
    ELSE IF \A i \in 1..Len(cash_flows) : cash_flows[i] < 0
    THEN {[irr |-> None, status |-> "ERROR",
           message |-> "No positive cash flows - IRR undefined", method |-> "None"]}
    ELSE None

\* NewtonAccepted without the check of the feasible domain.
NewtonAcceptedAnywhere(nw) == nw.resid_ok

\* The fast-fail checks of lines 28-33: the dict returned, or None when the
\* input passes them.
IrrPrecheck(cash_flows) ==
    IF Len(cash_flows) < 2
    THEN {[irr |-> None, status |-> "ERROR",
           message |-> "Need at least 2 cash flows", method |-> "None"]}
    ELSE IF \A i \in 1..Len(cash_flows) : cash_flows[i] >= 0
    THEN {[irr |-> None, status |-> "ERROR",
           message |-> "No negative cash flows - IRR undefined", method |-> "None"]}
    ELSE IF \A i \in 1..Len(cash_flows) : cash_flows[i] <= 0
    THEN {[irr |-> None, status |-> "ERROR",
           message |-> "No positive cash flows - IRR undefined", method |-> "None"]}
    ELSE None

\* The except clause of the brentq attempt (line 42): the exceptions it catches.
BrentqCaught(exc) == exc = "ValueError"

\* Acceptance of the Newton root (line 51).
NewtonAccepted(nw) == nw.resid_ok /\ RATE_LO < nw.rate /\ nw.rate < RATE_HI

\* calculate_irr_robust (lines 27-55).  br and nw are the outcomes of the
\* brentq and newton calls, used only on the paths that make the calls.
calculate_irr_robust(cash_flows, method, br, nw) ==
    LET warning == Warning(cash_flows)
        early == IrrPrecheck(cash_flows)
        tryBrentq == method \in {"brentq", "both"}
        tryNewton == method \in {"newton", "both"}
        called == (IF tryBrentq THEN <<Solved("brentq", br)>> ELSE <<>>)
        failed == [irr |-> None, status |-> "FAILED",
                   message |-> "All solver methods failed to converge",
                   method |-> "None", warning |-> warning]
        \* lines 45-55
        afterBrentq ==
            IF tryNewton
            THEN IF nw.kind = "root" /\ NewtonAccepted(nw)
                 THEN Returned([irr |-> {nw.rate}, status |-> "CONVERGED",
                                method |-> "Newton-Raphson (with derivative)",
                                npv_check |-> "small", warning |-> warning],
                               called \o <<Solved("newton", nw)>>)
                 ELSE Returned(failed, called \o <<Solved("newton", nw)>>)
            ELSE Returned(failed, called)
    IN  IF early # None
        THEN Returned(CHOOSE d \in early : TRUE, <<>>)
        ELSE IF ~tryBrentq THEN afterBrentq
        ELSE IF br.kind = "root"
        THEN IF br.resid_ok
             THEN Returned([irr |-> {br.rate}, status |-> "CONVERGED",
                            method |-> "Brentq (Bracketing)",
                            npv_check |-> "small", warning |-> warning],
                           called)
             ELSE afterBrentq
        ELSE IF ~BrentqCaught(br.exc) THEN Raised(br.exc, called)
        ELSE IF method = "brentq"
        THEN Returned([irr |-> None, status |-> "ERROR",
                       message |-> "Brentq failed", 
                       method |-> "Brentq (Bracketing)", warning |-> warning],
                      called)
        ELSE afterBrentq

Methods == {"brentq", "newton", "both"}

\* A call of calculate_irr_robust.
IrrCall ==
    /\ irr_call = NoCall
    /\ xirr_call = NoCall
    /\ \E cf \in CashFlowSeqs, method \in Methods :
         \E br \in IrrBrentqOutcomes(cf), nw \in NewtonOutcomes :
            irr_call' = [fn |-> "calculate_irr_robust", cash_flows |-> cf,
                         method |-> method,
                         outcome |-> calculate_irr_robust(cf, method, br, nw)]
    /\ UNCHANGED <<debtVars, xirr_call, mcVars, optVars>>

\* Dates are day numbers; the dates of the model are whole multiples of
\* 1461 days, which is 4 years of 365.25 days.
DateValues == {0, 1461}

DateSeqs == UNION {[1..n -> DateValues] : n \in 0..MaxLen}

\* The amounts of a dated cash flow in the model.
DatedFlowValues == {-1, 0, 1}

DatedFlowSeqs == UNION {[1..n -> DatedFlowValues] : n \in 0..MaxLen}

\* years (line 61): (d - first_date).days / 365.25.
YearsOf(dates) ==
    [i \in 1..Len(dates) |-> ((dates[i] - dates[1]) * 100) \div 36525]

SeqMin(s) == CHOOSE m \in {s[i] : i \in 1..Len(s)} : \A j \in 1..Len(s) : m <= s[j]

SeqMax(s) == CHOOSE m \in {s[i] : i \in 1..Len(s)} : \A j \in 1..Len(s) : m >= s[j]

\* xnpv (lines 62-63) at the rate r with 1 + r = num / den, times the positive
\* factor num^max(years) / den^min(years).
RECURSIVE XnpvTerms(_, _, _, _, _)
XnpvTerms(num, den, cf, years, i) ==
    IF i > Len(cf) THEN 0
    ELSE cf[i] * IPow(den, years[i] - SeqMin(years))
               * IPow(num, SeqMax(years) - years[i])
         + XnpvTerms(num, den, cf, years, i + 1)

xnpv_sign(num, den, cash_flows, years) ==
    Sign(XnpvTerms(num, den, cash_flows, years, 1))

\* brentq on xnpv (line 65).
XirrBrentqOutcomes(cash_flows, dates) ==
    BrentqOutcomes(xnpv_sign(1, 100, cash_flows, YearsOf(dates)),
                   xnpv_sign(6, 1, cash_flows, YearsOf(dates)))

\* calculate_xirr_robust (lines 57-68).  br is the outcome of the brentq
\* call, used only on the path that makes the call.
calculate_xirr_robust(cash_flows, dates, br) ==
    IF Len(cash_flows) # Len(dates)
    THEN Returned([xirr |-> None, status |-> "ERROR",
                   message |-> "Cash flows and dates must have same length"],
                  <<>>)
    ELSE IF Len(dates) = 0
    THEN Raised("IndexError", <<>>)          \* dates[0], line 60
    ELSE IF br.kind = "root"
    THEN Returned([xirr |-> {br.rate}, status |-> "CONVERGED",
                   method |-> "Brentq with irregular periods",
                   npv_check |-> "computed"],
                  <<Solved("brentq", br)>>)
    ELSE Returned([xirr |-> None, status |-> "FAILED",
                   message |-> "XIRR calculation failed to converge"],
                  <<Solved("brentq", br)>>)

\* A call of calculate_xirr_robust.
XirrCall ==
    /\ irr_call = NoCall
    /\ xirr_call = NoCall
    /\ \E cf \in DatedFlowSeqs, dates \in DateSeqs :
         \E br \in (IF Len(cf) = Len(dates) /\ Len(dates) > 0
                    THEN XirrBrentqOutcomes(cf, dates)
                    ELSE {Raise("not called")}) :
            xirr_call' = [fn |-> "calculate_xirr_robust", cash_flows |-> cf,
                          dates |-> dates,
                          outcome |-> calculate_xirr_robust(cf, dates, br)]
    /\ UNCHANGED <<debtVars, irr_call, mcVars, optVars>>
-----------------------------------------------------------------------------
(* The pipeline the harnesses call: dutchbay_model_v12                     *)

\* total_capex of create_default_parameters(), thousands of USD.
DefaultTotalCapex == 155000

\* The metrics of one evaluation of the pipeline.  IRRs are in percent and
\* may be None (no value computed), min_dscr is the ratio times 10, the NPV
\* is in thousands of USD.
PipelineResults ==
    [ equity_irr  : {None, {12}, {60}},
      project_irr : {{10}},
      npv_12pct   : {{2500}},
      min_dscr    : {{12}, {35}} ]

\* What a call of build_financial_model does: it returns the metrics or
\* raises.
PipelineOutcomes ==
    {[kind |-> "ok", results |-> r] : r \in PipelineResults}
        \cup {[kind |-> "raise", exc |-> "ValueError"]}

-----------------------------------------------------------------------------
(* Scenario harness, montecarlo.py                                         *)

\* Largest number of draws of a run in the model.
MaxDraws == 3

\* The seeds of the model; NoSeed is seed=None.
NoSeed == -1
Seeds == {NoSeed, 1, 2}

\* The random source of line 15: the generator's k-th raw output for the
\* initial state s0, a full-period linear congruential sequence over 0..15.
\* A given seed gives the initial state seed % 16; without a seed the
\* initial state comes from the operating system's entropy.
RngModulus == 16

RECURSIVE RngRaw(_, _)
RngRaw(s0, k) ==
    IF k = 0 THEN s0 % RngModulus ELSE (5 * RngRaw(s0, k - 1) + 3) % RngModulus

\* rng.uniform(lo, hi, n)[i] when the array is filled from raw output number
\* first + i (i from 0).
Uniform(s0, lo, hi, first, n) ==
    [i \in 0..(n - 1) |-> lo + ((hi - lo) * RngRaw(s0, first + i + 1)) \div RngModulus]

\* generate_mc_parameters (lines 11-22): five arrays drawn one after the
\* other from the same generator.  Rates and fx_depr in basis points,
\* debt_ratio and capacity_factor in percent.
generate_mc_parameters(n_scenarios, s0) ==
    [ usd_rate        |-> Uniform(s0, 650, 900, 0, n_scenarios),
      lkr_rate        |-> Uniform(s0, 750, 900, n_scenarios, n_scenarios),
      debt_ratio      |-> Uniform(s0, 50, 80, 2 * n_scenarios, n_scenarios),
      fx_depr         |-> Uniform(s0, 300, 500, 3 * n_scenarios, n_scenarios),
      capacity_factor |-> Uniform(s0, 38, 42, 4 * n_scenarios, n_scenarios) ]

\* A random source that takes its initial state from the operating system
\* whatever the seed.
RngInitialStatesUnseeded(seed) == {5, 11}

\* np.random.default_rng(seed) (line 15): the initial states of the
\* generator, one for a given seed, any for seed=None.
RngInitialStates(seed) == IF seed = NoSeed THEN {5, 11} ELSE {seed}

\* The debt structure of a draw (lines 44-54).
McDebt(dratio, urate, lrate) ==
    LET td == (DefaultTotalCapex * dratio) \div 100
        ud == (td * 45) \div 100
        ld == td - ud
    IN  [total_debt |-> td, usd_debt |-> ud, lkr_debt |-> ld,
         usd_mkt_rate |-> urate, lkr_rate |-> lrate]

\* McRow with the draws numbered from 0.
McRowFromZero(i, sc, results) ==
    [ iteration       |-> i,
      usd_rate        |-> sc.usd_rate[i],
      lkr_rate        |-> sc.lkr_rate[i],
      debt_ratio      |-> sc.debt_ratio[i],
      fx_depr         |-> sc.fx_depr[i],
      capacity_factor |-> sc.capacity_factor[i],
      equity_irr      |-> results.equity_irr,
      project_irr     |-> results.project_irr,
      npv_12pct       |-> results.npv_12pct,
      min_dscr        |-> results.min_dscr ]

\* The row appended for draw i (lines 56-67); i counts from 0.
McRow(i, sc, results) ==
    [ iteration       |-> i + 1,
      usd_rate        |-> sc.usd_rate[i],
      lkr_rate        |-> sc.lkr_rate[i],
      debt_ratio      |-> sc.debt_ratio[i],
      fx_depr         |-> sc.fx_depr[i],
      capacity_factor |-> sc.capacity_factor[i],
      equity_irr      |-> results.equity_irr,
      project_irr     |-> results.project_irr,
      npv_12pct       |-> results.npv_12pct,
      min_dscr        |-> results.min_dscr ]

\* run_monte_carlo is called: lines 29-32, up to the loop.
McStart ==
    /\ mc_pc = "start"
    /\ \E s0 \in RngInitialStates(mc_args.seed) :
          scenarios' = generate_mc_parameters(mc_args.iterations, s0)
    /\ mc_pc' = "loop"
    /\ mc_i' = 0
    /\ out_data' = <<>>
    /\ mc_calls' = <<>>
    /\ UNCHANGED <<mc_args, scenarios_again, debtVars, irrVars, optVars>>

\* One pass of the loop body (lines 33-67), for every outcome of its call of
\* build_financial_model.  An exception of the call is not handled in
\* run_monte_carlo and ends it.
McDraw ==
    /\ mc_pc = "loop"
    /\ mc_i < mc_args.iterations
    /\ LET debt == McDebt(scenarios.debt_ratio[mc_i], scenarios.usd_rate[mc_i],
                          scenarios.lkr_rate[mc_i])
           p == [cf_p50 |-> scenarios.capacity_factor[mc_i],
                 fx_depr |-> scenarios.fx_depr[mc_i]]
       IN  /\ mc_calls' = Append(mc_calls, [p |-> p, debt |-> debt])
           /\ \E b \in PipelineOutcomes :
                IF b.kind = "ok"
                THEN /\ out_data' = Append(out_data, McRow(mc_i, scenarios, b.results))
                     /\ mc_i' = mc_i + 1
                     /\ mc_pc' = "loop"
                ELSE /\ mc_pc' = "raised"
                     /\ UNCHANGED <<out_data, mc_i>>
    /\ UNCHANGED <<mc_args, scenarios, scenarios_again, debtVars, irrVars, optVars>>

\* The loop is over: the rows are returned as a DataFrame (line 68).
McReturn ==
    /\ mc_pc = "loop"
    /\ mc_i = mc_args.iterations
    /\ mc_pc' = "done"
    /\ UNCHANGED <<mc_args, scenarios, mc_i, out_data, mc_calls, scenarios_again,
                   debtVars, irrVars, optVars>>

\* After the run generate_mc_parameters is called once more with the same
\* arguments (a second run_monte_carlo starts, lines 29-31).
McGenerateAgain ==
    /\ mc_pc = "done"
    /\ scenarios_again = <<>>
    /\ \E s0 \in RngInitialStates(mc_args.seed) :
          scenarios_again' = generate_mc_parameters(mc_args.iterations, s0)
    /\ UNCHANGED <<mc_pc, mc_args, scenarios, mc_i, out_data, mc_calls,
                   debtVars, irrVars, optVars>>

-----------------------------------------------------------------------------
(* Optimizer, optimization_enhanced.py                                     *)

\* Largest number of trial points the solver evaluates in the model.
MaxTrials == 2

\* The penalty of a failed objective evaluation (1e10 in lines 59, 77, 95;
\* 10^9 here, to stay within 32-bit integers).  The metrics of the model stay
\* far below it.
PENALTY == 1000000000

\* Decision vectors <<dratio, usd_pct, dfi_pct>> in percent, within the
\* bounds of line 97: the start x0 (line 100) and the lower corner.
X0 == <<80, 45, 10>>

TrialPoints == {X0, <<50, 0, 0>>}

\* Thresholds in the units of the metrics: the default (line 24) and the
\* unreachable pair of test_optimization_handles_convergence_failure.
ConstraintSets ==
    {[min_irr |-> 15, min_dscr |-> 13], [min_irr |-> 50, min_dscr |-> 30]}

Objectives == {"equity_irr", "project_irr", "npv"}

\* The debt structure of a decision vector (lines 38-49, 111-121).
OptDebt(x) ==
    LET td == (DefaultTotalCapex * x[1]) \div 100
        ud == (td * x[2]) \div 100
        ld == td - ud
    IN  [total_debt |-> td, usd_debt |-> ud, lkr_debt |-> ld,
         dfi_pct_of_usd |-> x[3]]

\* Arithmetic on a metric that may be None: Python raises TypeError.
IsNumber(m) == m # None

Value(m) == CHOOSE v \in m : TRUE

\* A value returned by a function.
Ret(v) == [kind |-> "return", value |-> v]

\* An except clause that catches KeyError only.
TrialCaughtKeyErrorOnly(exc) == exc = "KeyError"

\* The except clauses of the three trial functions (lines 57, 76, 94):
\* the exceptions they catch.
TrialCaught(exc) == TRUE

\* The try body of a trial function on the outcome b of its pipeline call,
\* for the metric m it reads and the value v it computes from it.
TrialBody(b, m, v) ==
    IF b.kind = "raise" THEN Raise(b.exc)
    ELSE IF ~IsNumber(m) THEN Raise("TypeError")
    ELSE Ret(v)

\* objective_func (lines 36-59) on the outcome b of its pipeline call.
objective_func(objective, b) ==
    LET m == IF b.kind = "raise" THEN None
             ELSE IF objective = "project_irr" THEN b.results.project_irr
             ELSE IF objective = "npv" THEN b.results.npv_12pct
             ELSE b.results.equity_irr
        body == TrialBody(b, m, -Value(m))
    IN  IF body.kind = "raise" /\ TrialCaught(body.exc) THEN Ret(PENALTY)
        ELSE body

\* constraint_min_irr (lines 61-77) on the outcome b of its pipeline call.
constraint_min_irr(constraints, b) ==
    LET m == IF b.kind = "raise" THEN None ELSE b.results.equity_irr
        body == TrialBody(b, m, Value(m) - constraints.min_irr)
    IN  IF body.kind = "raise" /\ TrialCaught(body.exc) THEN Ret(-PENALTY)
        ELSE body

\* constraint_min_dscr (lines 79-95) on the outcome b of its pipeline call.
constraint_min_dscr(constraints, b) ==
    LET m == IF b.kind = "raise" THEN None ELSE b.results.min_dscr
        body == TrialBody(b, m, Value(m) - constraints.min_dscr)
    IN  IF body.kind = "raise" /\ TrialCaught(body.exc) THEN Ret(-PENALTY)
        ELSE body

\* What minimize does in the end (lines 102-106): it returns a result object
\* (success or not, with the final point and a message) or raises.
SolverOutcomes ==
    {[kind |-> "res", success |-> TRUE, x |-> x,
      message |-> "Optimization terminated successfully"] : x \in TrialPoints}
    \cup {[kind |-> "res", success |-> FALSE, x |-> x,
           message |-> "Iteration limit reached"] : x \in TrialPoints}
    \cup {[kind |-> "raise", exc |-> "RuntimeError"]}

\* An except clause that catches ValueError only, as the one of the brentq
\* attempt does.
OptCaughtValueErrorOnly(exc) == exc = "ValueError"

\* The except clause of line 149: the exceptions it catches.
OptCaught(exc) == TRUE

\* The dict of the except clause (lines 150-162).
OptFailure(exc) ==
    [ optimal_debt_ratio |-> None, optimal_usd_pct |-> None,
      optimal_dfi_pct |-> None, optimized_equity_irr |-> None,
      optimized_project_irr |-> None, optimized_npv |-> None,
      optimized_min_dscr |-> None, result |-> None,
      convergence |-> FALSE,
      message |-> "Optimization failed with error",
      error |-> exc ]

\* Lines 111-147: the final point is evaluated once more (outcome b) and the
\* result dict is built; an exception on the way is raised to line 149.
OptEvaluateFinal(constraints, res, b) ==
    IF b.kind = "raise" THEN Raise(b.exc)
    ELSE IF ~IsNumber(b.results.equity_irr) \/ ~IsNumber(b.results.min_dscr)
    THEN Raise("TypeError")                              \* lines 124-125
    ELSE LET model == b.results
             irr_violation == constraints.min_irr - Value(model.equity_irr)
             dscr_violation == constraints.min_dscr - Value(model.min_dscr)
         IN  [ kind |-> "return",
               value |->
                 [ optimal_debt_ratio |-> {res.x[1]},
                   optimal_usd_pct |-> {res.x[2]},
                   optimal_dfi_pct |-> {res.x[3]},
                   optimized_equity_irr |-> model.equity_irr,
                   optimized_project_irr |-> model.project_irr,
                   optimized_npv |-> model.npv_12pct,
                   optimized_min_dscr |-> model.min_dscr,
                   result |-> {model},
                   convergence |-> res.success,
                   message |-> res.message,
                   constraint_violations |->
                     [ irr_violation |-> Max(0, irr_violation),
                       dscr_violation |-> Max(0, dscr_violation) ] ] ]

\* The try statement of lines 101-162 once minimize has ended with outcome
\* res: what optimize_capital_structure does.
OptTry(constraints, res, b) ==
    LET body == IF res.kind = "raise" THEN Raise(res.exc)
                ELSE OptEvaluateFinal(constraints, res, b)
    IN  IF body.kind = "return" THEN body
        ELSE IF OptCaught(body.exc)
             THEN [kind |-> "return", value |-> OptFailure(body.exc)]
             ELSE body

\* The solver evaluates the objective and the two constraints at a trial
\* point; each of the three functions runs the pipeline.  An exception that
\* a trial function lets out passes through minimize to the except clause of
\* line 149 and ends the search.
OptTrial ==
    /\ opt_pc = "search"
    /\ Len(opt_trials) < MaxTrials
    /\ \E x \in (IF opt_trials = <<>> THEN {X0} ELSE TrialPoints) :
          LET o == objective_func(opt_args.objective, pipeline[x])
              ci == constraint_min_irr(opt_args.constraints, pipeline[x])
              cd == constraint_min_dscr(opt_args.constraints, pipeline[x])
              escaped == {r \in {o, ci, cd} : r.kind = "raise"}
          IN  /\ opt_trials' = Append(opt_trials,
                    [ x |-> x,
                      debt |-> OptDebt(x),
                      pipeline |-> pipeline[x],
                      objective |-> o,
                      c_irr |-> ci,
                      c_dscr |-> cd ])
              /\ IF escaped = {}
                 THEN UNCHANGED <<opt_pc, opt_res, opt_result>>
                 ELSE /\ opt_res' = CHOOSE r \in escaped : TRUE
                      /\ opt_result' = OptTry(opt_args.constraints, opt_res',
                                              [kind |-> "not called"])
                      /\ opt_pc' = "ended"
    /\ UNCHANGED <<opt_args, pipeline>>
    /\ UNCHANGED <<debtVars, irrVars, mcVars>>

\* minimize ends and optimize_capital_structure completes.
OptFinish ==
    /\ opt_pc = "search"
    /\ \E res \in SolverOutcomes :
          /\ res.kind = "res" => opt_trials # <<>>
          /\ opt_res' = res
          /\ opt_result' =
                OptTry(opt_args.constraints, res,
                       IF res.kind = "res" THEN pipeline[res.x]
                       ELSE [kind |-> "not called"])
    /\ opt_pc' = "ended"
    /\ UNCHANGED <<opt_args, pipeline, opt_trials, debtVars, irrVars, mcVars>>

-----------------------------------------------------------------------------
(* Specifications                                                          *)

\* The parts that a specification does not run stay in these states.
DebtIdle ==
    /\ P = CHOOSE p \in ParameterSets : TRUE
    /\ year = 0
    /\ usd_bal = 0
    /\ lkr_bal = 0
    /\ usd_principal_hist = <<>>
    /\ usd_interest_hist = <<>>
    /\ lkr_principal_hist = <<>>
    /\ lkr_interest_hist = <<>>
    /\ lkr_ds_hist = <<>>
    /\ ledger = <<>>

IrrIdle == irr_call = NoCall /\ xirr_call = NoCall

McIdle ==
    /\ mc_pc = "idle"
    /\ mc_args = [iterations |-> 0, seed |-> NoSeed]
    /\ scenarios = <<>>
    /\ mc_i = 0
    /\ out_data = <<>>
    /\ mc_calls = <<>>
    /\ scenarios_again = <<>>

OptIdle ==
    /\ opt_pc = "idle"
    /\ opt_args = [objective |-> "equity_irr",
                   constraints |-> [min_irr |-> 15, min_dscr |-> 13]]
    /\ pipeline = <<>>
    /\ opt_trials = <<>>
    /\ opt_res = [kind |-> "none"]
    /\ opt_result = [kind |-> "none"]

InitDebt == DebtStart /\ IrrIdle /\ McIdle /\ OptIdle

NextDebt == ScheduleYear \/ build_full_model

SpecDebt == InitDebt /\ [][NextDebt]_vars

InitIrr == DebtIdle /\ IrrIdle /\ McIdle /\ OptIdle

NextIrr == IrrCall \/ XirrCall

SpecIrr == InitIrr /\ [][NextIrr]_vars

\* run_monte_carlo is entered with its arguments.
InitMC ==
    /\ DebtIdle /\ IrrIdle /\ OptIdle
    /\ mc_pc = "start"
    /\ mc_args \in [iterations : 1..MaxDraws, seed : Seeds]
    /\ scenarios = <<>>
    /\ mc_i = 0
    /\ out_data = <<>>
    /\ mc_calls = <<>>
    /\ scenarios_again = <<>>

NextMC == McStart \/ McDraw \/ McReturn \/ McGenerateAgain

SpecMC == InitMC /\ [][NextMC]_vars

\* optimize_capital_structure is entered with its arguments and has set up
\* the search (lines 33-100); the pipeline is some function of the point.
InitOpt ==
    /\ DebtIdle /\ IrrIdle /\ McIdle
    /\ opt_pc = "search"
    /\ opt_args \in [objective : Objectives, constraints : ConstraintSets]
    /\ pipeline \in [TrialPoints -> PipelineOutcomes]
    /\ opt_trials = <<>>
    /\ opt_res = [kind |-> "none"]
    /\ opt_result = [kind |-> "none"]

NextOpt == OptTrial \/ OptFinish

SpecOpt == InitOpt /\ [][NextOpt]_vars


-----------------------------------------------------------------------------
(* Properties of compute_debt_schedule                                     *)

\* C1: in every year of the horizon, whatever the cash flow available for
\* debt service (a negative one included), the hard-currency principal
\* applied is >= 0, so that the balance never increases.
C1_PrincipalNeverNegative ==
    \A y \in 1..Len(usd_principal_hist) : usd_principal_hist[y] >= 0

\* C2: after every year's transition the outstanding balance of the
\* hard-currency and of the local-currency facility is >= 0.
C2_BalancesNonNegative ==
    Len(usd_principal_hist) >= 1 => usd_bal >= 0 /\ lkr_bal >= 0

\* Principal has been paid on both facilities and both balances stand at
\* the floor of zero.
C2_Witness ==
    /\ Len(usd_principal_hist) >= 1
    /\ usd_bal = 0
    /\ lkr_bal = 0
    /\ \E y \in 1..Len(lkr_principal_hist) : lkr_principal_hist[y] > 0
    /\ \E y \in 1..Len(usd_principal_hist) : usd_principal_hist[y] > 0

\* C3: with a grace period G >= 1 configured, the hard-currency principal of
\* every year y <= G is zero.
C3_GraceYearsInterestOnly ==
    \A y \in 1..Len(usd_principal_hist) :
        (P.GRACE_PERIOD >= 1 /\ y <= P.GRACE_PERIOD) => usd_principal_hist[y] = 0

-----------------------------------------------------------------------------
(* Properties of the root-finding layer                                    *)

IrrCalled == irr_call.fn = "calculate_irr_robust"

XirrCalled == xirr_call.fn = "calculate_xirr_robust"

AllNonNegative(cf) == \A i \in 1..Len(cf) : cf[i] >= 0

AllNonPositive(cf) == \A i \in 1..Len(cf) : cf[i] <= 0

\* The input is rejected by the preconditions of the root finder.
IllPosed(cf) == Len(cf) < 2 \/ AllNonNegative(cf) \/ AllNonPositive(cf)

\* C4: when the solving of a well-posed input fails (the single requested
\* method fails, or with 'both' both fail), the returned result has status
\* FAILED and a message.
C4_FailureIsStatusFailed ==
    (/\ IrrCalled
     /\ ~IllPosed(irr_call.cash_flows)
     /\ irr_call.outcome.kind = "return"
     /\ irr_call.outcome.value.status # "CONVERGED")
        => /\ irr_call.outcome.value.status = "FAILED"
           /\ "message" \in DOMAIN irr_call.outcome.value

\* C5: calculate_irr_robust never lets an exception out: every call returns
\* a result whose status is CONVERGED, FAILED or ERROR.
C5_IrrNeverRaises ==
    IrrCalled
        => /\ irr_call.outcome.kind = "return"
           /\ irr_call.outcome.value.status \in {"CONVERGED", "FAILED", "ERROR"}

\* C6: on fewer than 2 cash flows, or cash flows without a sign change, the
\* call returns status ERROR with irr = None and invokes no solver.
C6_IllPosedIsError ==
    (IrrCalled /\ IllPosed(irr_call.cash_flows))
        => /\ irr_call.outcome.kind = "return"
           /\ irr_call.outcome.value.status = "ERROR"
           /\ irr_call.outcome.value.irr = None
           /\ irr_call.outcome.solvers = <<>>

\* A call on two or more cash flows none of which is negative, one being zero.
C6_Witness ==
    /\ IrrCalled
    /\ Len(irr_call.cash_flows) >= 2
    /\ AllNonNegative(irr_call.cash_flows)
    /\ \E i \in 1..Len(irr_call.cash_flows) : irr_call.cash_flows[i] = 0
    /\ \E i \in 1..Len(irr_call.cash_flows) : irr_call.cash_flows[i] > 0
    /\ irr_call.outcome.kind = "return"
    /\ irr_call.outcome.value.status = "ERROR"

\* C7: calculate_xirr_robust never lets an exception out, and on empty
\* sequences, fewer than 2 flows or flows without a sign change it returns
\* status ERROR or FAILED with xirr = None.
C7_XirrFailureContract ==
    XirrCalled
        => /\ xirr_call.outcome.kind = "return"
           /\ IllPosed(xirr_call.cash_flows)
                => /\ xirr_call.outcome.value.status \in {"ERROR", "FAILED"}
                   /\ xirr_call.outcome.value.xirr = None

\* The calls the call of calculate_irr_robust made of the solver named name.
SolverCalls(name) ==
    {irr_call.outcome.solvers[i].outcome :
        i \in {j \in 1..Len(irr_call.outcome.solvers) :
                  irr_call.outcome.solvers[j].solver = name}}

\* C17: with method 'both', Newton is attempted if and only if brentq did not
\* yield an accepted root; a brentq root whose residual fails the check is
\* rejected and Newton is attempted; a Newton root is returned only if its
\* residual passes the check and it lies strictly between -0.99 and 5.0.
C17_NewtonIffBrentqNotAccepted ==
    (IrrCalled /\ irr_call.method = "both" /\ ~IllPosed(irr_call.cash_flows))
        => LET brentqAccepted ==
                   \E br \in SolverCalls("brentq") :
                       br.kind = "root" /\ br.resid_ok
               newtonAttempted == SolverCalls("newton") # {}
           IN  /\ newtonAttempted <=> ~brentqAccepted
               /\ (/\ irr_call.outcome.kind = "return"
                   /\ irr_call.outcome.value.status = "CONVERGED"
                   /\ newtonAttempted)
                     => \E nw \in SolverCalls("newton") :
                           /\ nw.kind = "root"
                           /\ nw.resid_ok
                           /\ RATE_LO < nw.rate
                           /\ nw.rate < RATE_HI
                           /\ irr_call.outcome.value.irr = {nw.rate}

\* C18: for an input that passes the preconditions and has more than one sign
\* change between consecutive entries a solver is still invoked, and every
\* result returned carries the multiple-roots warning; with at most one sign
\* change the warning is None.
C18_MultipleRootsWarning ==
    (/\ IrrCalled
     /\ ~IllPosed(irr_call.cash_flows)
     /\ irr_call.outcome.kind = "return")
        => LET cf == irr_call.cash_flows
               changes == {i \in 1..(Len(cf) - 1) :
                              Sign(cf[i]) * Sign(cf[i + 1]) = -1}
           IN  /\ irr_call.outcome.solvers # <<>>
               /\ "warning" \in DOMAIN irr_call.outcome.value
               /\ irr_call.outcome.value.warning =
                     IF Cardinality(changes) > 1
                     THEN "multiple IRRs may exist" ELSE "None"

\* A call on cash flows with two sign changes whose solving failed: the
\* result has status FAILED and carries the warning.
C18_Witness ==
    /\ IrrCalled
    /\ SignChanges(irr_call.cash_flows) > 1
    /\ irr_call.outcome.kind = "return"
    /\ irr_call.outcome.value.status = "FAILED"
    /\ irr_call.outcome.value.warning = "multiple IRRs may exist"

-----------------------------------------------------------------------------
(* Properties of the scenario harness                                      *)

\* C8: a draw whose pipeline evaluation raises does not end the batch: the
\* run completes, and a row has been emitted for every one of the N draws.
C8_BatchCompletes ==
    /\ mc_pc # "raised"
    /\ mc_pc = "done" => Len(out_data) = mc_args.iterations

C20_RowsFollowDraws ==
    mc_pc = "done"
        => /\ Len(out_data) = mc_args.iterations
           /\ Len(mc_calls) = mc_args.iterations
           /\ \A k \in 1..Len(out_data) :
                 LET row == out_data[k]
                     debt == mc_calls[k].debt
                 IN  /\ row.iteration = k
                     /\ row.usd_rate = scenarios.usd_rate[k - 1]
                     /\ row.lkr_rate = scenarios.lkr_rate[k - 1]
                     /\ row.debt_ratio = scenarios.debt_ratio[k - 1]
                     /\ row.fx_depr = scenarios.fx_depr[k - 1]
                     /\ row.capacity_factor = scenarios.capacity_factor[k - 1]
                     /\ debt.total_debt
                           = (DefaultTotalCapex * row.debt_ratio) \div 100
                     /\ debt.usd_debt = (debt.total_debt * 45) \div 100
                     /\ debt.lkr_debt = debt.total_debt - debt.usd_debt
                     /\ debt.usd_mkt_rate = row.usd_rate
                     /\ debt.lkr_rate = row.lkr_rate

\* A completed run of several draws with different sampled ratios.
C20_Witness ==
    /\ mc_pc = "done"
    /\ mc_args.iterations >= 2
    /\ Len(out_data) = mc_args.iterations
    /\ out_data[1].debt_ratio # out_data[2].debt_ratio
    /\ out_data[2].iteration = 2

-----------------------------------------------------------------------------
(* Properties of the optimizer                                             *)

OptEnded == opt_pc = "ended"

\* The pipeline's metrics at the solver's final point, when there are any.
FinalMetrics == pipeline[opt_res.x].results

\* C9: every result of optimize_capital_structure, of the normal and of the
\* failure path, has a constraint_violations entry whose irr_violation and
\* dscr_violation are >= 0 and equal max(0, threshold - achieved metric).
C9_ViolationsAlwaysReported ==
    (OptEnded /\ opt_result.kind = "return")
        => /\ "constraint_violations" \in DOMAIN opt_result.value
           /\ LET v == opt_result.value.constraint_violations
              IN  /\ v.irr_violation >= 0
                  /\ v.dscr_violation >= 0
                  /\ v.irr_violation =
                        Max(0, opt_args.constraints.min_irr
                                 - Value(FinalMetrics.equity_irr))
                  /\ v.dscr_violation =
                        Max(0, opt_args.constraints.min_dscr
                                 - Value(FinalMetrics.min_dscr))

\* The solver did not succeed, or an exception occurred in the solver or in
\* the final re-evaluation.
OptTrouble ==
    \/ opt_res.kind = "raise"
    \/ ~opt_res.success
    \/ pipeline[opt_res.x].kind = "raise"
    \/ ~IsNumber(FinalMetrics.equity_irr)

\* C10: once the search has started optimize_capital_structure never raises:
\* it returns a dict with 'convergence' and 'message', and convergence is
\* False whenever the solver did not succeed or an exception occurred.
C10_OptimizerNeverRaises ==
    OptEnded
        => /\ opt_result.kind = "return"
           /\ "convergence" \in DOMAIN opt_result.value
           /\ "message" \in DOMAIN opt_result.value
           /\ OptTrouble => opt_result.value.convergence = FALSE

\* The solver reported success, and the final re-evaluation raised.
C10_Witness ==
    /\ OptEnded
    /\ opt_res.kind = "res"
    /\ opt_res.success
    /\ pipeline[opt_res.x].kind = "raise"
    /\ opt_result.kind = "return"
    /\ opt_result.value.convergence = FALSE

\* An exception was raised in the evaluation of the trial t: by the pipeline,
\* or by arithmetic on a metric that is None.
TrialRaised(t) ==
    \/ t.pipeline.kind = "raise"
    \/ t.pipeline.results.equity_irr = None

\* C11: an exception raised while a trial point is evaluated does not end
\* the search: the objective function returns the penalty and each constraint
\* function the negated penalty for that trial, and the search ends only by
\* the solver's own outcome.
C11_TrialFailureIsPenalised ==
    \A k \in 1..Len(opt_trials) :
        LET t == opt_trials[k]
        IN  /\ t.pipeline.kind = "raise"
                  => /\ t.objective = Ret(PENALTY)
                     /\ t.c_irr = Ret(-PENALTY)
                     /\ t.c_dscr = Ret(-PENALTY)
            /\ (t.pipeline.kind = "ok" /\ t.pipeline.results.equity_irr = None)
                  => /\ t.c_irr = Ret(-PENALTY)
                     /\ t.c_dscr.kind = "return"
                     /\ opt_args.objective = "equity_irr"
                           => t.objective = Ret(PENALTY)
            /\ (TrialRaised(t) /\ OptEnded) => opt_res \in SolverOutcomes

\* The pipeline raised at the first trial point, the three functions returned
\* their penalties, and the solver went on to a second, different point.
C11_Witness ==
    /\ Len(opt_trials) = 2
    /\ opt_trials[1].pipeline.kind = "raise"
    /\ opt_trials[1].objective = Ret(PENALTY)
    /\ opt_trials[1].c_irr = Ret(-PENALTY)
    /\ opt_trials[2].x # opt_trials[1].x
    /\ opt_trials[2].pipeline.kind = "ok"

-----------------------------------------------------------------------------
(* Properties of build_full_model and of the schedule it is built from     *)

LedgerBuilt == ledger # <<>>

\* Sum of the DA column over the first n rows.
RECURSIVE SumDa(_)
SumDa(n) == IF n = 0 THEN 0 ELSE ledger[n].DA + SumDa(n - 1)

\* C12: for a horizon that is at least the economic life, DA is total capex /
\* economic life in every year within the life and zero in every year beyond
\* it, and the DA column sums to the total capital expenditure.
C12_DepreciationClosure ==
    (LedgerBuilt /\ P.PROJECT_YEARS >= P.ECON_LIFE)
        => /\ \A y \in 1..Len(ledger) :
                 ledger[y].DA = IF y <= P.ECON_LIFE
                                THEN CAPEX_TOTAL \div P.ECON_LIFE ELSE 0
           /\ SumDa(Len(ledger)) = CAPEX_TOTAL

\* C13: in every row of the ledger DSCR is not-a-number or a finite number
\* that is not negative, whatever the signs of the operating cash flow and of
\* the total debt service of the year.
C13_DscrNeverNegative ==
    \A y \in 1..Len(ledger) :
        ledger[y].DSCR = None \/ Value(ledger[y].DSCR) >= 0

\* C14: the local-currency balance is exactly zero once the year equal to the
\* tenor has been scheduled and stays zero, and the local-currency principal
\* of every year beyond the tenor is zero.
C14_LkrRepaidAtTenor ==
    Len(lkr_principal_hist) >= P.LKR_DEBT_TENOR
        => /\ lkr_bal = 0
           /\ \A y \in 1..Len(lkr_principal_hist) :
                 y > P.LKR_DEBT_TENOR => lkr_principal_hist[y] = 0

\* A loan that the tenor does not divide: years beyond the tenor have been
\* scheduled, principal was paid in the year of the tenor, the balance is zero.
C14_Witness ==
    /\ P.LKR_DEBT_INIT % P.LKR_DEBT_TENOR # 0
    /\ Len(lkr_principal_hist) > P.LKR_DEBT_TENOR
    /\ lkr_principal_hist[P.LKR_DEBT_TENOR] > 0
    /\ lkr_principal_hist[P.LKR_DEBT_TENOR + 1] = 0
    /\ lkr_bal = 0

\* C15: in every row of the ledger, equity cash flow = operating cash flow -
\* total debt service, and total debt service = hard-currency interest and
\* principal + local-currency interest and principal of the schedule
\* converted at the FX rate of the year.
C15_EquityCashFlowIdentity ==
    \A y \in 1..Len(ledger) :
        /\ ledger[y].Eq_CF = ledger[y].Op_CF - ledger[y].Total_DS
        /\ ledger[y].Total_DS =
              usd_interest_hist[y] + usd_principal_hist[y]
                + (lkr_interest_hist[y] * 100000) \div compute_fx(y)
                + (lkr_principal_hist[y] * 100000) \div compute_fx(y)

\* A ledger with a year in which both facilities are served and the equity
\* cash flow is positive, and a year in which it is negative.
C15_Witness ==
    /\ LedgerBuilt
    /\ \E y \in 1..Len(ledger) :
          /\ ledger[y].USD_Prin > 0
          /\ ledger[y].LKR_Prin > 0
          /\ ledger[y].Eq_CF > 0
    /\ \E y \in 1..Len(ledger) : ledger[y].Eq_CF < 0

\* C16: tax is >= 0 in every year, a year of negative EBIT included, in the
\* ledger and in the operating cash flow of compute_debt_schedule.
C16_TaxNeverNegative ==
    /\ \A y \in 1..Len(ledger) : ledger[y].Tax >= 0
    /\ LET y == Len(usd_principal_hist)       \* the year just scheduled
       IN  y >= 1 => /\ SchedTax(y) >= 0
                     /\ SchedOpCf(y) <= SchedEbit(y) + compute_depreciation

\* A ledger with a year of negative EBIT and zero tax, after a schedule that
\* computed the same year, and a year of positive EBIT and tax.
C16_Witness ==
    /\ LedgerBuilt
    /\ \E y \in 1..Len(ledger) :
          /\ ledger[y].EBIT < 0
          /\ ledger[y].Tax = 0
          /\ SchedEbit(y) < 0
          /\ SchedTax(y) = 0
    /\ \E y \in 1..Len(ledger) : ledger[y].EBIT > 0 /\ ledger[y].Tax > 0

-----------------------------------------------------------------------------
(* Properties of the year-by-year state machine of the schedule            *)

\* Sum of the first n entries of a principal history.
RECURSIVE SumFirst(_, _)
SumFirst(hist, n) == IF n = 0 THEN 0 ELSE hist[n] + SumFirst(hist, n - 1)

\* The balance at the start of year y: what the principal of the years
\* before y has left of the initial balance.
UsdStartBalance(y) == P.USD_DEBT_INIT - SumFirst(usd_principal_hist, y - 1)

LkrStartBalance(y) == P.LKR_DEBT_INIT - SumFirst(lkr_principal_hist, y - 1)

\* C21: the interest of each facility for year y is the balance at the start
\* of year y, left after the principal of year y-1, times the rate of the
\* facility; the principal of year y has no part in it.
C21_InterestOnStartBalance ==
    \A y \in 1..Len(usd_interest_hist) :
        /\ usd_interest_hist[y] = (UsdStartBalance(y) * USD_DEBT_RATE) \div S
        /\ lkr_interest_hist[y] = (LkrStartBalance(y) * LKR_DEBT_RATE) \div S

\* Two consecutive years in each of which both facilities repay principal:
\* the interest of the later year is lower on both.
C21_Witness ==
    \E y \in 2..Len(usd_interest_hist) :
        /\ usd_principal_hist[y - 1] > 0
        /\ usd_principal_hist[y] > 0
        /\ lkr_principal_hist[y - 1] > 0
        /\ lkr_principal_hist[y] > 0
        /\ usd_interest_hist[y] < usd_interest_hist[y - 1]
        /\ lkr_interest_hist[y] < lkr_interest_hist[y - 1]

\* The share of the available cash flow that goes to hard-currency principal,
\* in %.
Share(y) == IF y <= 4 THEN 80 ELSE 20

\* C22: the hard-currency principal of a year y >= 2 is min(start-of-year
\* balance, share(y) x available cash flow), the available cash flow being
\* the operating cash flow minus the hard-currency interest and minus the
\* local-currency interest converted at the FX rate of year y, and share(y)
\* being 80% in years 2 to 4 and 20% above; the principal of no year exceeds
\* the start-of-year balance.
C22_PrincipalIsBandedShare ==
    LET y == Len(usd_principal_hist)           \* the year just scheduled
        avail == SchedOpCf(y) - usd_interest_hist[y]
                   - (lkr_interest_hist[y] * 100000) \div compute_fx(y)
    IN  /\ y >= 2 =>
              usd_principal_hist[y]
                  = Min(UsdStartBalance(y), (Share(y) * avail) \div 100)
        /\ \A z \in 1..y : usd_principal_hist[z] <= UsdStartBalance(z)

\* A schedule in which a year of the 80% band pays less than the balance and
\* a later year of the 20% band pays the balance off.
C22_Witness ==
    /\ \E y \in 2..Min(4, Len(usd_principal_hist)) :
          /\ usd_principal_hist[y] > 0
          /\ usd_principal_hist[y] < UsdStartBalance(y)
    /\ \E y \in 5..Len(usd_principal_hist) :
          /\ usd_principal_hist[y] > 0
          /\ usd_principal_hist[y] = UsdStartBalance(y)

\* C23: for every year, the operating cash flow that compute_debt_schedule
\* computes to size the hard-currency principal equals the Op_CF of the same
\* year in the ledger of build_full_model.
C23_OperatingCashFlowsAgree ==
    \A y \in 1..Len(ledger) : ledger[y].Op_CF = SchedOpCf(y)

\* A ledger with a taxed year and with an untaxed year of negative EBIT, the
\* two computations agreeing in both.
C23_Witness ==
    /\ LedgerBuilt
    /\ \E y \in 1..Len(ledger) :
          /\ ledger[y].Tax > 0
          /\ ledger[y].Op_CF < ledger[y].EBITDA
          /\ ledger[y].Op_CF = SchedOpCf(y)
    /\ \E y \in 1..Len(ledger) :
          /\ ledger[y].EBIT < 0
          /\ ledger[y].Op_CF = ledger[y].EBITDA
          /\ ledger[y].Op_CF = SchedOpCf(y)

-----------------------------------------------------------------------------
(* Properties of the results of calculate_irr_robust                       *)

\* C24: in every result returned, irr is not None if and only if the status
\* is CONVERGED, and the irr of a CONVERGED result lies within [-0.99, 5.0]
\* and is a root that a solver returned and whose residual passed the check
\* against 10 x tolerance.
C24_RateIffConverged ==
    (IrrCalled /\ irr_call.outcome.kind = "return")
        => LET result == irr_call.outcome.value
               roots == {r \in SolverCalls("brentq") \cup SolverCalls("newton") :
                            r.kind = "root"}
           IN  /\ result.irr # None <=> result.status = "CONVERGED"
               /\ result.status = "CONVERGED"
                     => /\ "npv_check" \in DOMAIN result
                        /\ \E r \in roots :
                              /\ result.irr = {r.rate}
                              /\ r.resid_ok
                              /\ RATE_LO <= r.rate
                              /\ r.rate <= RATE_HI

\* A call in which the root of brentq failed the residual check and the
\* root of Newton, inside the domain, passed it and was returned.
C24_Witness ==
    /\ IrrCalled
    /\ irr_call.outcome.kind = "return"
    /\ irr_call.outcome.value.status = "CONVERGED"
    /\ irr_call.outcome.value.method = "Newton-Raphson (with derivative)"
    /\ irr_call.outcome.value.irr = {RateInside}
    /\ \E br \in SolverCalls("brentq") : br.kind = "root" /\ ~br.resid_ok

=============================================================================
